---- MODULE Spec2Model ----
(***************************************************************************)
(* A model of api_concierge_lib: the state codec, the four message types   *)
(* and the API Gateway proxy adapter.                                      *)
(*                                                                         *)
(* Python values are tagged records [t |-> tag, v |-> content]:            *)
(*   None/null, bool, int, str (a sequence of characters), list (a         *)
(*   sequence of values), dict (a sequence of <<key, value>> pairs in      *)
(*   insertion order, keys distinct), bytes (a sequence of 0..255) and     *)
(*   raise (a raised exception, v its class).                              *)
(* A character is a one-character string; Backtick and EAcute stand for    *)
(* U+0060 and U+00E9.                                                      *)
(***************************************************************************)
EXTENDS Integers, Sequences, FiniteSets, TLC

----------------------------------------------------------------------------
(* Characters and text *)

Backtick == "U+0060"

Printable ==
  << " ", "!", "\"", "#", "$", "%", "&", "'", "(", ")", "*", "+", ",", "-", ".", "/",
     "0", "1", "2", "3", "4", "5", "6", "7", "8", "9", ":", ";", "<", "=", ">", "?",
     "@", "A", "B", "C", "D", "E", "F", "G", "H", "I", "J", "K", "L", "M", "N", "O",
     "P", "Q", "R", "S", "T", "U", "V", "W", "X", "Y", "Z", "[", "\\", "]", "^", "_",
     Backtick, "a", "b", "c", "d", "e", "f", "g", "h", "i", "j", "k", "l", "m", "n", "o",
     "p", "q", "r", "s", "t", "u", "v", "w", "x", "y", "z", "{", "|", "}", "~" >>

EAcute == "U+00E9"

Chars == {Printable[i] : i \in 1..Len(Printable)} \cup {"\t", "\n", "\r", EAcute}

OrdTable ==
  [c \in Chars |->
     IF c = "\t" THEN 9
     ELSE IF c = "\n" THEN 10
     ELSE IF c = "\r" THEN 13
     ELSE IF c = EAcute THEN 233
     ELSE 31 + (CHOOSE i \in 1..Len(Printable) : Printable[i] = c)]

Ord(c) == OrdTable[c]

Codes == {OrdTable[c] : c \in Chars}

ChrTable == [n \in Codes |-> CHOOSE c \in Chars : OrdTable[c] = n]

Chr(n) == ChrTable[n]

\* str.lower() on one character
LowerChar(c) == IF Ord(c) \in 65..90 THEN Chr(Ord(c) + 32) ELSE c

\* str.lower()
Lower(s) == [i \in 1..Len(s) |-> LowerChar(s[i])]

\* str.startswith(prefix)
StartsWith(s, prefix) ==
  /\ Len(s) >= Len(prefix)
  /\ \A i \in 1..Len(prefix) : s[i] = prefix[i]

\* s[i:].startswith(lit), i a 1-based index
StartsAt(s, i, lit) ==
  /\ Len(s) >= i + Len(lit) - 1
  /\ \A k \in 1..Len(lit) : s[i + k - 1] = lit[k]

\* the least element of a set of integers
Min(S) == CHOOSE i \in S : \A k \in S : i <= k

----------------------------------------------------------------------------
(* Python values *)

None == [t |-> "null", v |-> 0]
PyBool(b) == [t |-> "bool", v |-> b]
PyInt(n) == [t |-> "int", v |-> n]
PyStr(s) == [t |-> "str", v |-> s]
PyList(l) == [t |-> "list", v |-> l]
PyDict(m) == [t |-> "dict", v |-> m]
PyBytes(b) == [t |-> "bytes", v |-> b]
Raise(e) == [t |-> "raise", v |-> e]

IsRaise(x) == x.t = "raise"

\* dict[key] = value: a new key is appended, an old key keeps its position
DictSet(m, key, value) ==
  IF \E i \in 1..Len(m) : m[i][1] = key
  THEN [i \in 1..Len(m) |-> IF m[i][1] = key THEN <<key, value>> ELSE m[i]]
  ELSE Append(m, <<key, value>>)

DictHas(m, key) == \E i \in 1..Len(m) : m[i][1] = key

DictGet(m, key) == m[CHOOSE i \in 1..Len(m) : m[i][1] = key][2]

\* The == of Python: bool is an int (True == 1), dicts compare without order
RECURSIVE PyEq(_, _)
PyEq(a, b) ==
  LET num(x) == IF x.t = "bool" THEN (IF x.v THEN 1 ELSE 0) ELSE x.v
  IN  IF a.t \in {"bool", "int"} /\ b.t \in {"bool", "int"} THEN num(a) = num(b)
      ELSE IF a.t # b.t THEN FALSE
      ELSE IF a.t = "list"
        THEN /\ Len(a.v) = Len(b.v)
             /\ \A i \in 1..Len(a.v) : PyEq(a.v[i], b.v[i])
      ELSE IF a.t = "dict"
        THEN /\ Len(a.v) = Len(b.v)
             /\ \A i \in 1..Len(a.v) :
                  /\ DictHas(b.v, a.v[i][1])
                  /\ PyEq(a.v[i][2], DictGet(b.v, a.v[i][1]))
      ELSE a.v = b.v

----------------------------------------------------------------------------
(* json.dumps with the default ensure_ascii=True and separators *)

Digits == <<"0", "1", "2", "3", "4", "5", "6", "7", "8", "9">>
HexDigits == Digits \o <<"a", "b", "c", "d", "e", "f">>

RECURSIVE NatToText(_)
NatToText(n) ==
  IF n < 10 THEN <<Digits[n + 1]>>
  ELSE Append(NatToText(n \div 10), Digits[(n % 10) + 1])

IntToText(n) == IF n < 0 THEN <<"-">> \o NatToText(0 - n) ELSE NatToText(n)

\* one character of a string as json.dumps writes it
EscapeChar(c) ==
  IF c = "\"" THEN <<"\\", "\"">>
  ELSE IF c = "\\" THEN <<"\\", "\\">>
  ELSE IF c = "\n" THEN <<"\\", "n">>
  ELSE IF c = "\r" THEN <<"\\", "r">>
  ELSE IF c = "\t" THEN <<"\\", "t">>
  ELSE IF Ord(c) \in 32..126 THEN <<c>>
  ELSE LET n == Ord(c)
       IN  <<"\\", "u",
             HexDigits[((n \div 4096) % 16) + 1], HexDigits[((n \div 256) % 16) + 1],
             HexDigits[((n \div 16) % 16) + 1], HexDigits[(n % 16) + 1]>>

\* ESCAPE_ASCII.sub: the characters that need no escape are copied in runs
RECURSIVE EscapeText(_)
EscapeText(s) ==
  LET E == {j \in 1..Len(s) : s[j] \in {"\"", "\\"} \/ Ord(s[j]) \notin 32..126}
  IN  IF E = {} THEN s
      ELSE SubSeq(s, 1, Min(E) - 1) \o EscapeChar(s[Min(E)])
           \o EscapeText(SubSeq(s, Min(E) + 1, Len(s)))

QuoteText(s) == <<"\"">> \o EscapeText(s) \o <<"\"">>

RECURSIVE json_dumps(_)
json_dumps(x) ==
  LET RECURSIVE Items(_, _)
      Items(l, i) ==
        IF i > Len(l) THEN <<>>
        ELSE (IF i > 1 THEN <<",", " ">> ELSE <<>>) \o json_dumps(l[i]) \o Items(l, i + 1)
      RECURSIVE Members(_, _)
      Members(m, i) ==
        IF i > Len(m) THEN <<>>
        ELSE (IF i > 1 THEN <<",", " ">> ELSE <<>>)
             \o QuoteText(m[i][1]) \o <<":", " ">> \o json_dumps(m[i][2])
             \o Members(m, i + 1)
  IN  CASE x.t = "null" -> <<"n", "u", "l", "l">>
        [] x.t = "bool" -> IF x.v THEN <<"t", "r", "u", "e">> ELSE <<"f", "a", "l", "s", "e">>
        [] x.t = "int"  -> IntToText(x.v)
        [] x.t = "str"  -> QuoteText(x.v)
        [] x.t = "list" -> <<"[">> \o Items(x.v, 1) \o <<"]">>
        [] x.t = "dict" -> <<"{">> \o Members(x.v, 1) \o <<"}">>

----------------------------------------------------------------------------
(* json.loads.  A parse result is [ok, val, end]: end is the index after   *)
(* the value.  Floats, NaN, Infinity, the escapes \b and \f and characters *)
(* outside Chars are outside the modelled values: the parser answers       *)
(* Raise("Unmodelled") there, which no reachable state holds (TypeOK).     *)

ParseOk(v, e) == [ok |-> TRUE, val |-> v, end |-> e]
ParseFail == [ok |-> FALSE, val |-> Raise("JSONDecodeError"), end |-> 0]
ParseUnmodelled == [ok |-> FALSE, val |-> Raise("Unmodelled"), end |-> 0]

IsWs(c) == c \in {" ", "\t", "\n", "\r"}
IsDigit(c) == Ord(c) \in 48..57
IsHex(c) == IsDigit(c) \/ Ord(c) \in 65..70 \/ Ord(c) \in 97..102

HexVal(c) ==
  IF IsDigit(c) THEN Ord(c) - 48
  ELSE IF Ord(c) \in 65..70 THEN Ord(c) - 55
  ELSE Ord(c) - 87

RECURSIVE SkipWs(_, _)
SkipWs(t, i) == IF i <= Len(t) /\ IsWs(t[i]) THEN SkipWs(t, i + 1) ELSE i

\* the escape at index j (a backslash) of a string whose content so far is acc
RECURSIVE ScanString(_, _, _)
ScanEscape(t, j, acc) ==
  IF j + 1 > Len(t) THEN ParseFail
  ELSE IF t[j + 1] \in {"\"", "\\", "/"} THEN ScanString(t, j + 2, Append(acc, t[j + 1]))
  ELSE IF t[j + 1] = "n" THEN ScanString(t, j + 2, Append(acc, "\n"))
  ELSE IF t[j + 1] = "r" THEN ScanString(t, j + 2, Append(acc, "\r"))
  ELSE IF t[j + 1] = "t" THEN ScanString(t, j + 2, Append(acc, "\t"))
  ELSE IF t[j + 1] \in {"b", "f"} THEN ParseUnmodelled
  ELSE IF t[j + 1] # "u" THEN ParseFail
  ELSE IF j + 5 > Len(t) THEN ParseFail
  ELSE IF \A k \in 2..5 : IsHex(t[j + k])
    THEN LET n == HexVal(t[j + 2]) * 4096 + HexVal(t[j + 3]) * 256
                  + HexVal(t[j + 4]) * 16 + HexVal(t[j + 5])
         IN  IF n \in Codes THEN ScanString(t, j + 6, Append(acc, Chr(n)))
             ELSE ParseUnmodelled
  ELSE IF \E k \in 2..5 : t[j + k] \in {" ", "\t", "\n", "\r", "+", "-", "_"}
    THEN ParseUnmodelled
  ELSE ParseFail

\* json.decoder.py_scanstring with strict=True; i is the index after the opening
\* quote.  STRINGCHUNK takes the characters up to the next quote, backslash or
\* control character in one step.
ScanString(t, i, acc) ==
  LET T == {j \in i..Len(t) : t[j] \in {"\"", "\\"} \/ Ord(t[j]) < 32}
  IN  IF T = {} THEN ParseFail
      ELSE IF t[Min(T)] = "\"" THEN ParseOk(PyStr(acc \o SubSeq(t, i, Min(T) - 1)), Min(T) + 1)
      ELSE IF t[Min(T)] = "\\" THEN ScanEscape(t, Min(T), acc \o SubSeq(t, i, Min(T) - 1))
      ELSE ParseFail

\* the index after the digits starting at i
RECURSIVE SkipDigits(_, _)
SkipDigits(t, i) == IF i <= Len(t) /\ IsDigit(t[i]) THEN SkipDigits(t, i + 1) ELSE i

RECURSIVE TextToNat(_, _, _)
TextToNat(t, i, j) ==
  IF j < i THEN 0 ELSE TextToNat(t, i, j - 1) * 10 + (Ord(t[j]) - 48)

\* json.scanner NUMBER_RE at index i: (-?(?:0|[1-9]\d*))(\.\d+)?([eE][-+]?\d+)?
ScanNumber(t, i) ==
  LET neg == i <= Len(t) /\ t[i] = "-"
      d == IF neg THEN i + 1 ELSE i
      e == IF d <= Len(t) /\ t[d] = "0" THEN d + 1 ELSE SkipDigits(t, d)
      frac == /\ e + 1 <= Len(t) /\ t[e] = "." /\ IsDigit(t[e + 1])
      exp == /\ e + 1 <= Len(t) /\ t[e] \in {"e", "E"}
             /\ \/ IsDigit(t[e + 1])
                \/ e + 2 <= Len(t) /\ t[e + 1] \in {"+", "-"} /\ IsDigit(t[e + 2])
      n == TextToNat(t, d, e - 1)
  IN  IF e = d
        THEN IF StartsAt(t, i, <<"-", "I", "n", "f", "i", "n", "i", "t", "y">>)
               THEN ParseUnmodelled ELSE ParseFail
      ELSE IF frac \/ exp THEN ParseUnmodelled
      ELSE ParseOk(PyInt(IF neg THEN 0 - n ELSE n), e)

RECURSIVE ScanOnce(_, _), ArrayItems(_, _, _), ObjectMembers(_, _, _)

\* JSONArray after a value and the whitespace behind it: "]" ends, "," goes on
ArrayNext(t, acc, j) ==
  IF j > Len(t) THEN ParseFail
  ELSE IF t[j] = "]" THEN ParseOk(PyList(acc), j + 1)
  ELSE IF t[j] = "," THEN ArrayItems(t, SkipWs(t, j + 1), acc)
  ELSE ParseFail

ArrayValue(t, acc, r) ==
  IF ~r.ok THEN r ELSE ArrayNext(t, Append(acc, r.val), SkipWs(t, r.end))

\* JSONArray: the values from index k on
ArrayItems(t, k, acc) == ArrayValue(t, acc, ScanOnce(t, k))

\* JSONArray: a is the index after "[" and whitespace
ArrayOpen(t, a) ==
  IF a <= Len(t) /\ t[a] = "]" THEN ParseOk(PyList(<<>>), a + 1)
  ELSE ArrayItems(t, a, <<>>)

\* JSONObject: a property name must open at q
ObjectKey(t, q, acc) ==
  IF q <= Len(t) /\ t[q] = "\"" THEN ObjectMembers(t, q, acc) ELSE ParseFail

\* JSONObject after a value and the whitespace behind it: "}" ends, "," goes on
ObjectNext(t, acc, j) ==
  IF j > Len(t) THEN ParseFail
  ELSE IF t[j] = "}" THEN ParseOk(PyDict(acc), j + 1)
  ELSE IF t[j] = "," THEN ObjectKey(t, SkipWs(t, j + 1), acc)
  ELSE ParseFail

ObjectValue(t, acc, name, r) ==
  IF ~r.ok THEN r ELSE ObjectNext(t, DictSet(acc, name, r.val), SkipWs(t, r.end))

ObjectColon(t, acc, name, c) ==
  IF c <= Len(t) /\ t[c] = ":"
    THEN ObjectValue(t, acc, name, ScanOnce(t, SkipWs(t, c + 1)))
  ELSE ParseFail

ObjectName(t, acc, key) ==
  IF ~key.ok THEN key ELSE ObjectColon(t, acc, key.val.v, SkipWs(t, key.end))

\* JSONObject: the members from the opening quote of a key at index k on
ObjectMembers(t, k, acc) == ObjectName(t, acc, ScanString(t, k + 1, <<>>))

\* JSONObject: a is the index after "{" and whitespace
ObjectOpen(t, a) ==
  IF a <= Len(t) /\ t[a] = "}" THEN ParseOk(PyDict(<<>>), a + 1)
  ELSE ObjectKey(t, a, <<>>)

\* json.scanner py_make_scanner._scan_once
ScanOnce(t, i) ==
  IF i > Len(t) THEN ParseFail
  ELSE IF t[i] = "\"" THEN ScanString(t, i + 1, <<>>)
  ELSE IF t[i] = "{" THEN ObjectOpen(t, SkipWs(t, i + 1))
  ELSE IF t[i] = "[" THEN ArrayOpen(t, SkipWs(t, i + 1))
  ELSE IF StartsAt(t, i, <<"n", "u", "l", "l">>) THEN ParseOk(None, i + 4)
  ELSE IF StartsAt(t, i, <<"t", "r", "u", "e">>) THEN ParseOk(PyBool(TRUE), i + 4)
  ELSE IF StartsAt(t, i, <<"f", "a", "l", "s", "e">>) THEN ParseOk(PyBool(FALSE), i + 5)
  ELSE IF StartsAt(t, i, <<"N", "a", "N">>) THEN ParseUnmodelled
  ELSE IF StartsAt(t, i, <<"I", "n", "f", "i", "n", "i", "t", "y">>) THEN ParseUnmodelled
  ELSE ScanNumber(t, i)

\* JSONDecoder.decode: nothing but whitespace may follow the value
DecodeEnd(t, r) ==
  IF ~r.ok THEN r.val
  ELSE IF SkipWs(t, r.end) # Len(t) + 1 THEN Raise("JSONDecodeError")
  ELSE r.val

\* JSONDecoder.decode on a str: one value between whitespace
DecodeText(t) == DecodeEnd(t, ScanOnce(t, SkipWs(t, 1)))

\* bytes.decode("utf-8") as json.loads applies it to bytes input.  Only the ASCII
\* characters of Chars and the bytes that can start no UTF-8 sequence are modelled.
BytesToText(b) ==
  IF \A i \in 1..Len(b) : b[i] \in Codes /\ b[i] < 128
    THEN PyStr([i \in 1..Len(b) |-> Chr(b[i])])
  ELSE LET f == CHOOSE i \in 1..Len(b) :
                  /\ ~(b[i] \in Codes /\ b[i] < 128)
                  /\ \A k \in 1..(i - 1) : b[k] \in Codes /\ b[k] < 128
       IN  IF b[f] \in 128..191 \/ b[f] >= 248 THEN Raise("UnicodeDecodeError")
           ELSE IF b[f] \in 1..31 THEN Raise("JSONDecodeError")
           ELSE Raise("Unmodelled")

\* json.loads(s) for s a str or bytes; any other type is a TypeError
DecodeDecoded(txt) == IF IsRaise(txt) THEN txt ELSE DecodeText(txt.v)

json_loads(s) ==
  IF s.t = "str" THEN DecodeText(s.v)
  ELSE IF s.t = "bytes" THEN DecodeDecoded(BytesToText(s.v))
  ELSE Raise("TypeError")

----------------------------------------------------------------------------
(* base64.urlsafe_b64encode and base64.urlsafe_b64decode *)

B64Chars ==
  << "A", "B", "C", "D", "E", "F", "G", "H", "I", "J", "K", "L", "M", "N", "O", "P",
     "Q", "R", "S", "T", "U", "V", "W", "X", "Y", "Z", "a", "b", "c", "d", "e", "f",
     "g", "h", "i", "j", "k", "l", "m", "n", "o", "p", "q", "r", "s", "t", "u", "v",
     "w", "x", "y", "z", "0", "1", "2", "3", "4", "5", "6", "7", "8", "9", "-", "_" >>

\* bytes to text, three bytes to four characters, padded with "="; character k of
\* the output is the k-th six-bit group of the input, zero-filled past its end
urlsafe_b64encode(b) ==
  LET n == Len(b)
      at(j) == IF j <= n THEN b[j] ELSE 0
      group(k) ==
        LET j == 3 * ((k - 1) \div 4) + 1
            r == (k - 1) % 4
        IN  IF r = 0 THEN at(j) \div 4
            ELSE IF r = 1 THEN ((at(j) % 4) * 16) + (at(j + 1) \div 16)
            ELSE IF r = 2 THEN ((at(j + 1) % 16) * 4) + (at(j + 2) \div 64)
            ELSE at(j + 2) % 64
      used == ((8 * n) + 5) \div 6
  IN  [k \in 1..(4 * ((n + 2) \div 3)) |->
         IF k <= used THEN B64Chars[group(k) + 1] ELSE "="]

\* the six-bit value of a character after urlsafe_b64decode has translated "-" and
\* "_" to "+" and "/" (which it accepts as well); 64 for any other character
B64Val(c) ==
  IF c \in {"+", "-"} THEN 62
  ELSE IF c \in {"/", "_"} THEN 63
  ELSE IF \E i \in 1..62 : B64Chars[i] = c
    THEN (CHOOSE i \in 1..62 : B64Chars[i] = c) - 1
  ELSE 64

\* binascii.a2b_base64 without strict_mode: characters outside the alphabet are
\* skipped; the data ends at the first "=" that completes a quad (any "=" after
\* three data characters, the second "=" in a row of padding after two); a quad
\* left partial at the end of the text is binascii.Error
a2b_base64(s) ==
  LET n == Len(s)
      IsData(i) == s[i] # "=" /\ B64Val(s[i]) < 64
      quad_pos(i) == Cardinality({j \in 1..(i - 1) : IsData(j)}) % 4
      Padded(i) == \E j \in 1..(i - 1) :
                     s[j] = "=" /\ \A k \in (j + 1)..(i - 1) : ~IsData(k)
      Ends(i) == /\ s[i] = "="
                 /\ \/ quad_pos(i) = 3
                    \/ quad_pos(i) = 2 /\ Padded(i)
      stops == {i \in 1..n : Ends(i)}
      last == IF stops = {} THEN n ELSE Min(stops) - 1
      idx == SelectSeq([i \in 1..last |-> i], IsData)
      bin(k) == B64Val(s[idx[k]])
      byte(m) ==
        LET j == ((8 * (m - 1)) \div 6) + 1
            r == (8 * (m - 1)) % 6
        IN  IF r = 0 THEN (bin(j) * 4) + (bin(j + 1) \div 16)
            ELSE IF r = 2 THEN ((bin(j) % 16) * 16) + (bin(j + 1) \div 4)
            ELSE ((bin(j) % 4) * 64) + bin(j + 1)
  IN  IF stops = {} /\ Len(idx) % 4 # 0 THEN Raise("binascii.Error")
      ELSE PyBytes([m \in 1..((6 * Len(idx)) \div 8) |-> byte(m)])

\* base64.urlsafe_b64decode(s): s a str of ASCII characters, else ValueError;
\* any other type but bytes is a TypeError
urlsafe_b64decode(s) ==
  IF s.t = "str"
    THEN IF \E i \in 1..Len(s.v) : Ord(s.v[i]) > 127 THEN Raise("ValueError")
         ELSE a2b_base64(s.v)
  ELSE IF s.t = "bytes"
    THEN a2b_base64([i \in 1..Len(s.v) |-> Chr(s.v[i])])
  ELSE Raise("TypeError")

\* str.encode("ascii")
EncodeAscii(t) ==
  IF \E i \in 1..Len(t) : Ord(t[i]) > 127 THEN Raise("UnicodeEncodeError")
  ELSE PyBytes([i \in 1..Len(t) |-> Ord(t[i])])

----------------------------------------------------------------------------
(* api_concierge_lib: the field names and the state codec *)

FIELD_PREFIX == <<"x", "-", "a", "p", "i", "-", "c", "o", "n", "c", "i", "e", "r", "g", "e", "-">>
REQUEST_FIELD == FIELD_PREFIX \o <<"r", "e", "q", "u", "e", "s", "t">>
RESPONSE_FIELD == FIELD_PREFIX \o <<"r", "e", "s", "p", "o", "n", "s", "e">>
SCHEMA_FIELD == FIELD_PREFIX \o <<"s", "c", "h", "e", "m", "a">>
INSTRUCTIONS_FIELD == FIELD_PREFIX \o <<"i", "n", "s", "t", "r", "u", "c", "t", "i", "o", "n", "s">>
CLIENT_FIELD == FIELD_PREFIX \o <<"c", "l", "i", "e", "n", "t">>
ERROR_FIELD == FIELD_PREFIX \o <<"e", "r", "r", "o", "r">>
STATE_FIELD == FIELD_PREFIX \o <<"s", "t", "a", "t", "e">>
BASE_FIELD == FIELD_PREFIX \o <<"b", "a", "s", "e">>
PATH_FIELD == FIELD_PREFIX \o <<"p", "a", "t", "h">>

SchemaWord == PyStr(<<"s", "c", "h", "e", "m", "a">>)
InvokeWord == PyStr(<<"i", "n", "v", "o", "k", "e">>)
ErrorWord == PyStr(<<"e", "r", "r", "o", "r">>)

_serialize(data) ==
  LET b == EncodeAscii(json_dumps(data))
  IN  IF IsRaise(b) THEN b ELSE PyStr(urlsafe_b64encode(b.v))

\* the characters the class [A-Za-z0-9,;-_=] holds: ";-_" is the range U+003B..U+005F
InRegexClass(c) ==
  \/ Ord(c) \in 65..90
  \/ Ord(c) \in 97..122
  \/ Ord(c) \in 48..57
  \/ c = ","
  \/ Ord(c) \in 59..95
  \/ c = "="

\* re.match(r"[^A-Za-z0-9,;-_=]", state): one character, at the start of state only
InvalidCharMatch(state) == Len(state) > 0 /\ ~InRegexClass(state[1])

_serialize_state(state, serialized) ==
  IF serialized THEN _serialize(state)
  ELSE IF state.t # "str" THEN Raise("TypeError")
  ELSE IF InvalidCharMatch(state.v) THEN Raise("ValueError")
  ELSE state

\* except Exception as e: raise InvalidStateError(e)
AsInvalidState(v) ==
  IF v = Raise("Unmodelled") THEN v
  ELSE IF IsRaise(v) THEN Raise("InvalidStateError")
  ELSE v

\* json.loads of what urlsafe_b64decode returned, if it returned
LoadsDecoded(b) == IF IsRaise(b) THEN b ELSE json_loads(b)

\* a variant of _deserialize_state that ignores the flag and hands the text back
_deserialize_state_undecoded(state_data, serialized) == state_data

_deserialize_state(state_data, serialized) ==
  IF ~serialized THEN state_data
  ELSE AsInvalidState(LoadsDecoded(urlsafe_b64decode(state_data)))

----------------------------------------------------------------------------
(* SchemaRequest *)

NewSchemaRequest(client) == [t |-> "SchemaRequest", v |-> [client |-> client]]

\* the indices of the entries whose key, lower-cased, is field
FieldMatches(data, field) == {i \in 1..Len(data) : Lower(data[i][1]) = Lower(field)}

\* a variant of is_schema_request in which the last request key decides
SchemaRequest_is_schema_request_last(data) ==
  LET hits == FieldMatches(data, REQUEST_FIELD)
  IN  IF hits = {} THEN FALSE
      ELSE PyEq(data[CHOOSE i \in hits : \A j \in hits : j <= i][2], SchemaWord)

SchemaRequest_is_schema_request(data) ==
  LET hits == FieldMatches(data, REQUEST_FIELD)
  IN  IF hits = {} THEN FALSE
      ELSE PyEq(data[Min(hits)][2], SchemaWord)

\* the loop of load and load_from_headers: the first client field, then break
FirstClient(data) ==
  LET hits == FieldMatches(data, CLIENT_FIELD)
  IN  IF hits = {} THEN None ELSE data[Min(hits)][2]

SchemaRequest_load(data) ==
  IF ~SchemaRequest_is_schema_request(data) THEN Raise("InvalidRequestError")
  ELSE NewSchemaRequest(FirstClient(data))

----------------------------------------------------------------------------
(* InvocationRequest *)

NewInvocationRequest(payload, client, state) ==
  [t |-> "InvocationRequest", v |-> [payload |-> payload, client |-> client, state |-> state]]

\* the loop of _identify from entry i on; the result is <<bool, state>>
RECURSIVE IdentifyLoop(_, _, _, _)
IdentifyLoop(data, i, request, state) ==
  IF i > Len(data)
    THEN IF request = None THEN <<FALSE, None>> ELSE <<TRUE, state>>
  ELSE IF Lower(data[i][1]) = Lower(REQUEST_FIELD)
    THEN IF ~PyEq(data[i][2], InvokeWord) THEN <<FALSE, None>>
         ELSE IdentifyLoop(data, i + 1, data[i][2], state)
  ELSE IF Lower(data[i][1]) = Lower(STATE_FIELD)
    THEN IdentifyLoop(data, i + 1, request, data[i][2])
  ELSE IdentifyLoop(data, i + 1, request, state)

\* a variant of _identify without the short circuit: one request key holding
\* "invoke" is enough, whatever the others hold
InvocationRequest_identify_any(data) ==
  LET reqs == {i \in FieldMatches(data, REQUEST_FIELD) : PyEq(data[i][2], InvokeWord)}
      sts == FieldMatches(data, STATE_FIELD)
  IN  IF reqs = {} THEN <<FALSE, None>>
      ELSE <<TRUE, IF sts = {} THEN None
                   ELSE data[CHOOSE i \in sts : \A j \in sts : j <= i][2]>>

InvocationRequest_identify(data) == IdentifyLoop(data, 1, None, None)

InvocationRequest_is_invocation_request(data, state, serialized_state) ==
  LET id == InvocationRequest_identify(data)
      data_state == _deserialize_state(id[2], serialized_state)
  IN  IF ~id[1] THEN PyBool(FALSE)
      ELSE IF state = None THEN PyBool(TRUE)
      ELSE IF IsRaise(data_state) THEN data_state
      ELSE PyBool(PyEq(state, data_state))

\* the loop of load_from_payload from entry i on: <<payload, client>>
RECURSIVE PayloadLoop(_, _, _)
PayloadLoop(data, i, payload) ==
  IF i > Len(data) THEN <<payload, None>>
  ELSE IF ~StartsWith(data[i][1], FIELD_PREFIX)
    THEN PayloadLoop(data, i + 1, DictSet(payload, data[i][1], data[i][2]))
  ELSE IF Lower(data[i][1]) = Lower(CLIENT_FIELD) THEN <<payload, data[i][2]>>
  ELSE PayloadLoop(data, i + 1, payload)

InvocationRequest_load_from_payload(data, serialized_state) ==
  LET id == InvocationRequest_identify(data)
      state == IF id[2] # None THEN _deserialize_state(id[2], serialized_state) ELSE None
      pc == PayloadLoop(data, 1, <<>>)
  IN  IF ~id[1] THEN Raise("InvalidRequestError")
      ELSE IF IsRaise(state) THEN state
      ELSE NewInvocationRequest(PyDict(pc[1]), pc[2], state)

InvocationRequest_load_from_headers(headers, payload, serialized_state) ==
  LET id == InvocationRequest_identify(headers)
      state == IF id[2] # None THEN _deserialize_state(id[2], serialized_state) ELSE None
  IN  IF ~id[1] THEN Raise("InvalidRequestError")
      ELSE IF IsRaise(state) THEN state
      ELSE NewInvocationRequest(payload, FirstClient(headers), state)

----------------------------------------------------------------------------
(* SchemaResponse and ErrorResponse *)

\* bool(x) of Python
Truthy(x) ==
  CASE x.t = "null" -> FALSE
    [] x.t = "bool" -> x.v
    [] x.t = "int" -> x.v # 0
    [] OTHER -> Len(x.v) > 0

\* a variant of the constructor without __post_init__
NewSchemaResponse_unchecked(schema, instructions, state, base, path) ==
  [t |-> "SchemaResponse",
   v |-> [schema |-> schema, instructions |-> instructions, state |-> state,
          base |-> base, path |-> path]]

\* the dataclass constructor with __post_init__
NewSchemaResponse(schema, instructions, state, base, path) ==
  IF path # None /\ base = None THEN Raise("ValueError")
  ELSE [t |-> "SchemaResponse",
        v |-> [schema |-> schema, instructions |-> instructions, state |-> state,
               base |-> base, path |-> path]]

SchemaResponse_get_payload(self, serialized_state) ==
  LET p0 == << <<RESPONSE_FIELD, SchemaWord>>, <<SCHEMA_FIELD, self.v.schema>> >>
      p1 == IF self.v.instructions # None
              THEN DictSet(p0, INSTRUCTIONS_FIELD, self.v.instructions) ELSE p0
      st == _serialize_state(self.v.state, serialized_state)
      p2 == IF self.v.state # None THEN DictSet(p1, STATE_FIELD, st) ELSE p1
      p3 == IF self.v.base # None THEN DictSet(p2, BASE_FIELD, self.v.base) ELSE p2
      p4 == IF self.v.base # None /\ self.v.path # None
              THEN DictSet(p3, PATH_FIELD, self.v.path) ELSE p3
  IN  IF self.v.state # None /\ IsRaise(st) THEN st ELSE PyDict(p4)

\* a variant of get_headers that emits what get_payload emits
SchemaResponse_get_headers_verbatim(self, serialized_state) ==
  SchemaResponse_get_payload(self, serialized_state)

SchemaResponse_get_headers(self, serialized_state) ==
  LET h0 == << <<RESPONSE_FIELD, SchemaWord>>, <<SCHEMA_FIELD, _serialize(self.v.schema)>> >>
      h1 == IF self.v.instructions # None
              THEN DictSet(h0, INSTRUCTIONS_FIELD, self.v.instructions) ELSE h0
      st == _serialize_state(self.v.state, serialized_state)
      h2 == IF self.v.state # None THEN DictSet(h1, STATE_FIELD, st) ELSE h1
      h3 == IF self.v.base # None
              THEN DictSet(h2, BASE_FIELD, _serialize(self.v.base)) ELSE h2
      h4 == IF self.v.base # None /\ self.v.path # None
              THEN DictSet(h3, PATH_FIELD, self.v.path) ELSE h3
  IN  IF self.v.state # None /\ IsRaise(st) THEN st ELSE PyDict(h4)

NewErrorResponse(error_message, schema, state, base, path) ==
  IF path # None /\ base = None THEN Raise("ValueError")
  ELSE [t |-> "ErrorResponse",
        v |-> [error_message |-> error_message, schema |-> schema, state |-> state,
               base |-> base, path |-> path]]

ErrorResponse_get_payload(self, serialized_state) ==
  LET p0 == << <<RESPONSE_FIELD, ErrorWord>>, <<ERROR_FIELD, self.v.error_message>> >>
      p1 == IF Truthy(self.v.schema) THEN DictSet(p0, SCHEMA_FIELD, self.v.schema) ELSE p0
      st == _serialize_state(self.v.state, serialized_state)
      p2 == IF self.v.state # None THEN DictSet(p1, STATE_FIELD, st) ELSE p1
      p3 == IF self.v.base # None THEN DictSet(p2, BASE_FIELD, self.v.base) ELSE p2
      p4 == IF self.v.base # None /\ self.v.path # None
              THEN DictSet(p3, PATH_FIELD, self.v.path) ELSE p3
  IN  IF self.v.state # None /\ IsRaise(st) THEN st ELSE PyDict(p4)

ErrorResponse_get_headers(self, serialized_state) ==
  LET h0 == << <<RESPONSE_FIELD, ErrorWord>>, <<ERROR_FIELD, self.v.error_message>> >>
      h1 == IF Truthy(self.v.schema)
              THEN DictSet(h0, SCHEMA_FIELD, _serialize(self.v.schema)) ELSE h0
      st == _serialize_state(self.v.state, serialized_state)
      h2 == IF self.v.state # None THEN DictSet(h1, STATE_FIELD, st) ELSE h1
      h3 == IF self.v.base # None
              THEN DictSet(h2, BASE_FIELD, _serialize(self.v.base)) ELSE h2
      h4 == IF self.v.base # None /\ self.v.path # None
              THEN DictSet(h3, PATH_FIELD, self.v.path) ELSE h3
  IN  IF self.v.state # None /\ IsRaise(st) THEN st ELSE PyDict(h4)

----------------------------------------------------------------------------
(* aws/apigateway_proxy: the transport adapter.  mode is "Body" or "Headers" *)

BodyKey == <<"b", "o", "d", "y">>
HeadersKey == <<"h", "e", "a", "d", "e", "r", "s">>

\* Mapping.get(key): None when the key is missing
Get(m, key) == IF DictHas(m, key) THEN DictGet(m, key) ELSE None

\* json.loads(event["body"]): KeyError without a body
LoadBody(event) ==
  IF ~DictHas(event.v, BodyKey) THEN Raise("KeyError")
  ELSE json_loads(DictGet(event.v, BodyKey))

\* except (ValueError, json.JSONDecodeError)
IsValueError(x) == x \in {Raise("JSONDecodeError"), Raise("UnicodeDecodeError"), Raise("ValueError")}

apigateway_is_invocation_request(event, mode, state) ==
  LET headers == Get(event.v, HeadersKey)
      payload == LoadBody(event)
  IN  IF mode = "Headers"
        THEN IF headers.t # "dict" THEN PyBool(FALSE)
             ELSE InvocationRequest_is_invocation_request(headers.v, state, TRUE)
      ELSE IF IsValueError(payload) THEN PyBool(FALSE)
      ELSE IF IsRaise(payload) THEN payload
      ELSE IF payload.t # "dict" THEN PyBool(FALSE)
      ELSE InvocationRequest_is_invocation_request(payload.v, state, TRUE)

apigateway_load_invoke_request(event, mode) ==
  LET headers == Get(event.v, HeadersKey)
      payload == LoadBody(event)
  IN  IF mode = "Headers"
        THEN IF headers.t # "dict" THEN None
             ELSE InvocationRequest_load_from_headers(headers.v, Get(event.v, BodyKey), FALSE)
      ELSE IF IsValueError(payload) THEN None
      ELSE IF IsRaise(payload) THEN payload
      ELSE IF payload.t # "dict" THEN None
      ELSE InvocationRequest_load_from_payload(event.v, TRUE)

----------------------------------------------------------------------------
(* The inputs the calls are made with *)

MaxItems == 2
MaxRawLen == 2
MaxFields == 3
MaxEventFields == 2

\* the sequences over S of length at most n
SeqsUpTo(S, n) == UNION {[1..k -> S] : k \in 0..n}

DistinctKeys(m) == \A i, j \in 1..Len(m) : m[i][1] = m[j][1] => i = j

Abc == PyStr(<<"a", "b", "c">>)
DictN1 == PyDict(<< <<<<"n">>, PyInt(1)>> >>)

Atoms ==
  {None, PyBool(TRUE), PyInt(0), PyInt(0 - 12), PyStr(<<>>), Abc,
   PyStr(<<"a", "\"", EAcute, "\n", "\\">>)}

ObjKeys == {<<"n">>, <<"k", " ", EAcute>>}

JsonValues ==
  Atoms
  \cup {PyList(l) : l \in SeqsUpTo(Atoms, MaxItems)}
  \cup {PyDict(m) : m \in {x \in SeqsUpTo(ObjKeys \X Atoms, MaxItems) : DistinctKeys(x)}}
  \cup {DictN1, PyList(<<PyList(<<>>), DictN1>>),
        PyDict(<< <<<<"n">>, PyList(<<PyInt(1), PyDict(<< <<<<"k">>, None>> >>)>>)>> >>)}

\* characters inside and outside the class [A-Za-z0-9,;_=-]
RawAlphabet == {"a", "Z", "5", ",", ";", "_", "=", "-", " ", "<", "~"}

AbcDef == PyStr(<<"a", "b", "c", " ", "d", "e", "f">>)

RawStrings == {PyStr(x) : x \in SeqsUpTo(RawAlphabet, MaxRawLen)} \cup {Abc, AbcDef}

StateValues == JsonValues \cup RawStrings

\* state fields as they arrive: two serialized states and a raw state
Token(v) == _serialize(v)
WireStates == {Token(Abc), Token(DictN1), Abc}

\* and what else may be handed to _deserialize_state: the base64 of "{", a token cut
\* short, values that are no strings
StateData ==
  WireStates \cup {None, PyInt(5), PyStr(<<"e", "w", "=", "=">>),
                   PyStr(<<"I", "m", "F", "i", "Y", "y", "I">>)}

RequestMixed ==
  <<"X", "-", "A", "p", "i", "-", "C", "o", "n", "c", "i", "e", "r", "g", "e", "-",
    "R", "e", "q", "u", "e", "s", "t">>
Foo == <<"f", "o", "o">>
ClientC1 == PyStr(<<"c", "1">>)

Entries ==
  ({REQUEST_FIELD, RequestMixed} \X {SchemaWord, InvokeWord, PyStr(<<"I", "n", "v", "o", "k", "e">>)})
  \cup ({STATE_FIELD} \X WireStates)
  \cup {<<CLIENT_FIELD, ClientC1>>, <<Foo, PyInt(1)>>}

Mappings == {m \in SeqsUpTo(Entries, MaxFields) : DistinctKeys(m)}

ExpectedStates == {None, Abc}

Schemas == {PyDict(<< <<<<"t", "y", "p", "e">>, PyStr(<<"s", "t", "r", "i", "n", "g">>)>> >>),
            PyDict(<<>>), None}
InstructionsValues == {None, PyStr(<<"h", "i">>)}
ResponseStates == {None, Abc, DictN1, PyStr(<<"a", " ", "b">>), PyStr(<<>>)}
Bases == {None, PyDict(<<>>), PyDict(<< <<<<"u">>, PyStr(<<"r">>)>> >>)}
Paths == {None, PyStr(<<"p", "/", "q">>)}
Boom == PyStr(<<"b", "o", "o", "m">>)

EventEntries ==
  {<<REQUEST_FIELD, InvokeWord>>, <<REQUEST_FIELD, SchemaWord>>, <<STATE_FIELD, Token(Abc)>>,
   <<CLIENT_FIELD, ClientC1>>, <<Foo, PyInt(1)>>}

EventMappings == {m \in SeqsUpTo(EventEntries, MaxEventFields) : DistinctKeys(m)}

\* the business payload of an invocation
BodyFoo1 == PyDict(<< <<Foo, PyInt(1)>> >>)

InvokeFoo1 == << <<REQUEST_FIELD, InvokeWord>>, <<Foo, PyInt(1)>> >>

\* the bodies of events: JSON documents, a JSON list, a broken document, no string
Bodies ==
  {PyStr(json_dumps(PyDict(m))) : m \in EventMappings}
  \cup {PyStr(<<"[", "1", "]">>), PyStr(<<"{">>), None}

HeaderMaps == {PyDict(m) : m \in EventMappings} \cup {None}

Missing == [t |-> "missing", v |-> 0]

\* an event holds a body, headers, both or neither, and perhaps fields of its own
Events ==
  LET base(b, h) == (IF b = Missing THEN <<>> ELSE << <<BodyKey, b>> >>)
                    \o (IF h = Missing THEN <<>> ELSE << <<HeadersKey, h>> >>)
      few == {PyStr(json_dumps(PyDict(InvokeFoo1))), Missing}
      fewh == {PyDict(InvokeFoo1), Missing}
      pairs == (Bodies \X fewh) \cup (few \X HeaderMaps)
  IN  {PyDict(base(p[1], p[2])) : p \in pairs}
      \cup {PyDict(<< <<REQUEST_FIELD, InvokeWord>> >> \o base(p[1], p[2])) : p \in pairs}

Modes == {"Body", "Headers"}

----------------------------------------------------------------------------
(* The state: the call in progress, its result, and the call it consumed *)

VARIABLES call, ret, prior

vars == <<call, ret, prior>>

Call(op, args) == [op |-> op, args |-> args]

IdleCall == Call("idle", <<>>)

Idle == call.op = "idle"

Init == call = IdleCall /\ ret = None /\ prior = None

\* the call op(args) is made and returns result; consumed is the call it follows
Do(op, args, result, consumed) ==
  /\ call' = Call(op, args)
  /\ ret' = result
  /\ prior' = consumed

Consumed == [call |-> call, ret |-> ret]

SerializeState ==
  /\ Idle
  /\ \E v \in StateValues, s \in BOOLEAN :
       Do("_serialize_state", <<v, s>>, _serialize_state(v, s), None)

DeserializeState ==
  /\ Idle
  /\ \E d \in StateData, s \in BOOLEAN :
       Do("_deserialize_state", <<d, s>>, _deserialize_state(d, s), None)

\* the string _serialize_state returned is read back
DeserializeSerialized ==
  /\ call.op = "_serialize_state"
  /\ ~IsRaise(ret)
  /\ \E s \in BOOLEAN :
       Do("_deserialize_state", <<ret, s>>, _deserialize_state(ret, s), Consumed)

IsSchemaRequest ==
  /\ Idle
  /\ \E d \in Mappings :
       Do("SchemaRequest.is_schema_request", <<d>>,
          PyBool(SchemaRequest_is_schema_request(d)), None)

LoadSchemaRequest ==
  /\ Idle
  /\ \E d \in Mappings : Do("SchemaRequest.load", <<d>>, SchemaRequest_load(d), None)

IsInvocationRequest ==
  /\ Idle
  /\ \E d \in Mappings, x \in ExpectedStates, s \in BOOLEAN :
       Do("InvocationRequest.is_invocation_request", <<d, x, s>>,
          InvocationRequest_is_invocation_request(d, x, s), None)

LoadFromPayload ==
  /\ Idle
  /\ \E d \in Mappings, s \in BOOLEAN :
       Do("InvocationRequest.load_from_payload", <<d, s>>,
          InvocationRequest_load_from_payload(d, s), None)

LoadFromHeaders ==
  /\ Idle
  /\ \E h \in Mappings, s \in BOOLEAN :
       Do("InvocationRequest.load_from_headers", <<h, BodyFoo1, s>>,
          InvocationRequest_load_from_headers(h, BodyFoo1, s), None)

ConstructSchemaResponse ==
  /\ Idle
  /\ \E schema \in Schemas, instructions \in InstructionsValues, state \in ResponseStates,
        base \in Bases, path \in Paths :
       Do("SchemaResponse", <<schema, instructions, state, base, path>>,
          NewSchemaResponse(schema, instructions, state, base, path), None)

ConstructErrorResponse ==
  /\ Idle
  /\ \E schema \in Schemas, state \in ResponseStates, base \in Bases, path \in Paths :
       Do("ErrorResponse", <<Boom, schema, state, base, path>>,
          NewErrorResponse(Boom, schema, state, base, path), None)

SchemaResponseGetPayload ==
  /\ call.op = "SchemaResponse" /\ ~IsRaise(ret)
  /\ \E s \in BOOLEAN :
       Do("get_payload", <<ret, s>>, SchemaResponse_get_payload(ret, s), Consumed)

SchemaResponseGetHeaders ==
  /\ call.op = "SchemaResponse" /\ ~IsRaise(ret)
  /\ \E s \in BOOLEAN :
       Do("get_headers", <<ret, s>>, SchemaResponse_get_headers(ret, s), Consumed)

ErrorResponseGetPayload ==
  /\ call.op = "ErrorResponse" /\ ~IsRaise(ret)
  /\ \E s \in BOOLEAN :
       Do("get_payload", <<ret, s>>, ErrorResponse_get_payload(ret, s), Consumed)

ErrorResponseGetHeaders ==
  /\ call.op = "ErrorResponse" /\ ~IsRaise(ret)
  /\ \E s \in BOOLEAN :
       Do("get_headers", <<ret, s>>, ErrorResponse_get_headers(ret, s), Consumed)

\* what the caller sends after a response: request = invoke and the state field of
\* the response, unmodified, before or after the request field
Echoes(emitted) ==
  LET req == << <<REQUEST_FIELD, InvokeWord>> >>
      st == IF DictHas(emitted, STATE_FIELD)
              THEN << <<STATE_FIELD, DictGet(emitted, STATE_FIELD)>> >> ELSE <<>>
  IN  {req \o st, st \o req}

\* the invocation that follows a response carried in the body
LoadEchoedPayload ==
  /\ call.op = "get_payload" /\ ret.t = "dict"
  /\ \E e \in Echoes(ret.v), s \in BOOLEAN :
       Do("InvocationRequest.load_from_payload", <<e \o BodyFoo1.v, s>>,
          InvocationRequest_load_from_payload(e \o BodyFoo1.v, s), Consumed)

\* the invocation that follows a response carried in the headers
LoadEchoedHeaders ==
  /\ call.op = "get_headers" /\ ret.t = "dict"
  /\ \E h \in Echoes(ret.v), s \in BOOLEAN :
       Do("InvocationRequest.load_from_headers", <<h, BodyFoo1, s>>,
          InvocationRequest_load_from_headers(h, BodyFoo1, s), Consumed)

AdapterIsInvocationRequest ==
  /\ Idle
  /\ \E event \in Events, mode \in Modes :
       Do("apigateway_proxy.is_invocation_request", <<event, mode>>,
          apigateway_is_invocation_request(event, mode, None), None)

\* detect, then load: the handler loads the event it has classified
AdapterLoadInvokeRequest ==
  /\ call.op = "apigateway_proxy.is_invocation_request" /\ ~IsRaise(ret)
  /\ Do("apigateway_proxy.load_invoke_request", call.args,
        apigateway_load_invoke_request(call.args[1], call.args[2]), Consumed)

\* the call returns to the handler
Return ==
  /\ ~Idle
  /\ call' = IdleCall /\ ret' = None /\ prior' = None

Next ==
  \/ SerializeState
  \/ DeserializeState
  \/ DeserializeSerialized
  \/ IsSchemaRequest
  \/ LoadSchemaRequest
  \/ IsInvocationRequest
  \/ LoadFromPayload
  \/ LoadFromHeaders
  \/ ConstructSchemaResponse
  \/ ConstructErrorResponse
  \/ SchemaResponseGetPayload
  \/ SchemaResponseGetHeaders
  \/ ErrorResponseGetPayload
  \/ ErrorResponseGetHeaders
  \/ LoadEchoedPayload
  \/ LoadEchoedHeaders
  \/ AdapterIsInvocationRequest
  \/ AdapterLoadInvokeRequest
  \/ Return

Spec == Init /\ [][Next]_vars

----------------------------------------------------------------------------
(* The contracts, stated over the call in progress and its result *)

\* C1: for every JSON-representable value v, reading back with serialized = TRUE
\* the string that _serialize_state(v, TRUE) returned gives a value equal to v.
StateRoundTrip ==
  (/\ call.op = "_deserialize_state"
   /\ prior # None
   /\ prior.call.args[2]
   /\ call.args[2])
  => PyEq(ret, prior.call.args[1])

\* a string with a quote, a non-ASCII character, a newline and a backslash has
\* made the round trip
StateRoundTripCase ==
  /\ call.op = "_deserialize_state"
  /\ prior # None
  /\ prior.call.args = <<PyStr(<<"a", "\"", EAcute, "\n", "\\">>), TRUE>>
  /\ call.args[2]
  /\ ret = prior.call.args[1]

\* C2: in raw mode a string whose characters all are in [A-Za-z0-9,;_=-] is
\* returned unchanged, and a string with a character outside the class, at any
\* position, is a ValueError.
RawStateValidated ==
  (/\ call.op = "_serialize_state"
   /\ ~call.args[2]
   /\ call.args[1].t = "str")
  => LET s == call.args[1].v
         Allowed(c) == \/ Ord(c) \in 65..90
                       \/ Ord(c) \in 97..122
                       \/ Ord(c) \in 48..57
                       \/ c \in {",", ";", "_", "=", "-"}
     IN  IF \A i \in 1..Len(s) : Allowed(s[i])
           THEN ret = call.args[1]
           ELSE ret = Raise("ValueError")

\* C3 as stated: is_schema_request(d) is true iff some key of d that is the
\* request field, compared without case, holds "schema".
SchemaRequestSomeKey ==
  call.op = "SchemaRequest.is_schema_request"
  => LET d == call.args[1]
     IN  ret = PyBool(\E i \in 1..Len(d) :
                        /\ Lower(d[i][1]) = Lower(REQUEST_FIELD)
                        /\ d[i][2] = SchemaWord)

\* C3: is_schema_request(d) is true iff the first key of d, in iteration order,
\* that is the request field, compared without case, holds "schema".
SchemaRequestFirstKey ==
  call.op = "SchemaRequest.is_schema_request"
  => LET d == call.args[1]
         IsRequest(i) == Lower(d[i][1]) = Lower(REQUEST_FIELD)
     IN  ret = PyBool(\E i \in 1..Len(d) :
                        /\ IsRequest(i)
                        /\ d[i][2] = SchemaWord
                        /\ \A j \in 1..(i - 1) : ~IsRequest(j))

\* two spellings of the request key, the first holding "invoke" and the second
\* "schema": not a schema request
SchemaRequestFirstKeyCase ==
  /\ call.op = "SchemaRequest.is_schema_request"
  /\ call.args[1] = << <<RequestMixed, InvokeWord>>, <<REQUEST_FIELD, SchemaWord>> >>
  /\ ret = PyBool(FALSE)

\* C4: load_from_payload(d) returns a request whose payload holds exactly the
\* entries of d whose key does not start with "x-api-concierge-", and whose state
\* is the decoded state field when d has one.
PayloadIsNonReserved ==
  (/\ call.op = "InvocationRequest.load_from_payload"
   /\ call.args[2]
   /\ ret.t = "InvocationRequest")
  => LET d == call.args[1]
         Business(e) == ~StartsWith(e[1], FIELD_PREFIX)
         sts == {i \in 1..Len(d) : Lower(d[i][1]) = Lower(STATE_FIELD)}
     IN  /\ PyEq(ret.v.payload, PyDict(SelectSeq(d, Business)))
         /\ sts # {} =>
              \E i \in sts : PyEq(ret.v.state, json_loads(urlsafe_b64decode(d[i][2])))

\* C5: with an expected state X, is_invocation_request(d, state=X) returns a
\* bool and never raises, and returns true only when d is invocation-shaped and
\* carries a state that decodes to X.
IsInvocationNeverRaises ==
  (/\ call.op = "InvocationRequest.is_invocation_request"
   /\ call.args[2] # None
   /\ call.args[3])
  => LET d == call.args[1]
     IN  /\ ret \in {PyBool(TRUE), PyBool(FALSE)}
         /\ ret = PyBool(TRUE) =>
              /\ \E i \in 1..Len(d) : /\ Lower(d[i][1]) = Lower(REQUEST_FIELD)
                                      /\ d[i][2] = InvokeWord
              /\ \E i \in 1..Len(d) :
                   /\ Lower(d[i][1]) = Lower(STATE_FIELD)
                   /\ PyEq(call.args[2], json_loads(urlsafe_b64decode(d[i][2])))

\* C6: a state s that is not None, emitted by get_payload() or get_headers() with
\* the default flag and echoed in an invocation, is the state of the request that
\* load_from_payload resp. load_from_headers returns with its own default flag.
StateSurvivesExchange ==
  /\ (/\ call.op = "InvocationRequest.load_from_payload"
      /\ prior # None
      /\ prior.call.args[2]
      /\ call.args[2]
      /\ prior.call.args[1].v.state # None)
     => /\ ret.t = "InvocationRequest"
        /\ PyEq(ret.v.state, prior.call.args[1].v.state)
  /\ (/\ call.op = "InvocationRequest.load_from_headers"
      /\ prior # None
      /\ prior.call.args[2]
      /\ ~call.args[3]
      /\ prior.call.args[1].v.state # None)
     => /\ ret.t = "InvocationRequest"
        /\ PyEq(ret.v.state, prior.call.args[1].v.state)

\* C7: a response constructed with path set and base unset is a ValueError and
\* every other construction succeeds, so a constructed response has a base when
\* it has a path; a mapping that get_payload or get_headers emits holds the path
\* field only with the base field, and holds both when both are set.
PathRequiresBase ==
  /\ call.op \in {"SchemaResponse", "ErrorResponse"}
     => /\ ret = Raise("ValueError") <=> (call.args[5] # None /\ call.args[4] = None)
        /\ ~IsRaise(ret) => /\ ret.v.base = call.args[4]
                            /\ ret.v.path = call.args[5]
                            /\ ret.v.path # None => ret.v.base # None
  /\ (call.op \in {"get_payload", "get_headers"} /\ ret.t = "dict")
     => /\ DictHas(ret.v, PATH_FIELD) => DictHas(ret.v, BASE_FIELD)
        /\ (call.args[1].v.base # None /\ call.args[1].v.path # None)
           => /\ DictHas(ret.v, BASE_FIELD)
              /\ DictHas(ret.v, PATH_FIELD)
              /\ DictGet(ret.v, PATH_FIELD) = call.args[1].v.path

\* a SchemaResponse with a path and no base has been refused
PathRequiresBaseCase ==
  /\ call.op = "SchemaResponse"
  /\ call.args[4] = None
  /\ call.args[5] = PyStr(<<"p", "/", "q">>)
  /\ ret = Raise("ValueError")

\* C8: for both values of serialized_state, the mapping SchemaResponse.get_headers
\* returns holds the schema, and the base when set, as base64 text that decodes
\* and JSON-parses to the original value; get_payload holds them verbatim; and the
\* two values of the flag give mappings that differ in the state field at most.
HeadersStringSafe ==
  /\ (/\ call.op = "get_headers"
      /\ call.args[1].t = "SchemaResponse"
      /\ ret.t = "dict")
     => LET self == call.args[1].v
            other == SchemaResponse_get_headers(call.args[1], ~call.args[2])
        IN  /\ DictGet(ret.v, SCHEMA_FIELD).t = "str"
            /\ json_loads(urlsafe_b64decode(DictGet(ret.v, SCHEMA_FIELD))) = self.schema
            /\ DictHas(ret.v, BASE_FIELD) <=> self.base # None
            /\ self.base # None =>
                 /\ DictGet(ret.v, BASE_FIELD).t = "str"
                 /\ json_loads(urlsafe_b64decode(DictGet(ret.v, BASE_FIELD))) = self.base
            /\ other.t = "dict" =>
                 /\ Len(other.v) = Len(ret.v)
                 /\ \A i \in 1..Len(ret.v) :
                      /\ other.v[i][1] = ret.v[i][1]
                      /\ ret.v[i][1] # STATE_FIELD => other.v[i] = ret.v[i]
  /\ (/\ call.op = "get_payload"
      /\ call.args[1].t = "SchemaResponse"
      /\ ret.t = "dict")
     => LET self == call.args[1].v
        IN  /\ DictGet(ret.v, SCHEMA_FIELD) = self.schema
            /\ DictHas(ret.v, BASE_FIELD) <=> self.base # None
            /\ self.base # None => DictGet(ret.v, BASE_FIELD) = self.base

\* with a raw state, get_headers has emitted {"type": "string"} and a base as
\* base64 text
HeadersStringSafeCase ==
  /\ call.op = "get_headers"
  /\ call.args[1].t = "SchemaResponse"
  /\ ~call.args[2]
  /\ call.args[1].v.state = Abc
  /\ call.args[1].v.base = PyDict(<< <<<<"u">>, PyStr(<<"r">>)>> >>)
  /\ ret.t = "dict"
  /\ DictGet(ret.v, STATE_FIELD) = Abc
  /\ DictGet(ret.v, SCHEMA_FIELD) =
       PyStr(<<"e", "y", "J", "0", "e", "X", "B", "l", "I", "j", "o", "g",
               "I", "n", "N", "0", "c", "m", "l", "u", "Z", "y", "J", "9">>)

\* C9: when is_invocation_request(event, mode) has returned true,
\* load_invoke_request(event, mode) does not raise and returns an
\* InvocationRequest; in Body mode its payload holds the fields of the decoded
\* body whose key does not start with "x-api-concierge-".
DetectThenLoad ==
  (/\ call.op = "apigateway_proxy.load_invoke_request"
   /\ prior.ret = PyBool(TRUE))
  => /\ ~IsRaise(ret)
     /\ ret.t = "InvocationRequest"
     /\ call.args[2] = "Body" =>
          LET body == json_loads(DictGet(call.args[1].v, BodyKey))
              Business(e) == ~StartsWith(e[1], FIELD_PREFIX)
          IN  PyEq(ret.v.payload, PyDict(SelectSeq(body.v, Business)))

\* C10: is_schema_request(d) and is_invocation_request(d) are never both true,
\* and SchemaRequest.load(d) and InvocationRequest.load_from_payload(d) never
\* both succeed.
ClassificationExclusive ==
  /\ (call.op = "SchemaRequest.is_schema_request" /\ ret = PyBool(TRUE))
     => InvocationRequest_is_invocation_request(call.args[1], None, TRUE) = PyBool(FALSE)
  /\ (call.op = "InvocationRequest.is_invocation_request" /\ ret = PyBool(TRUE))
     => ~SchemaRequest_is_schema_request(call.args[1])
  /\ (call.op = "SchemaRequest.load" /\ ~IsRaise(ret))
     => InvocationRequest_load_from_payload(call.args[1], TRUE) = Raise("InvalidRequestError")
  /\ (call.op = "InvocationRequest.load_from_payload" /\ ~IsRaise(ret))
     => SchemaRequest_load(call.args[1]) = Raise("InvalidRequestError")

\* a mapping with two spellings of the request key, "schema" first and "invoke"
\* second, has been classified as a schema request
ClassificationExclusiveCase ==
  /\ call.op = "SchemaRequest.is_schema_request"
  /\ call.args[1] = << <<REQUEST_FIELD, SchemaWord>>, <<RequestMixed, InvokeWord>> >>
  /\ ret = PyBool(TRUE)
====
